---- MODULE Spec2Model ----
(***************************************************************************)
(* Model of static/js/main.js, the GeoEstate map client controller.        *)
(*                                                                         *)
(* The browser runs every event handler and every promise callback to      *)
(* completion, so each handler / callback is one atomic action.  A fetch   *)
(* is a record in a set of requests in flight; its response is an action   *)
(* that picks any request in flight (responses arrive in any order) and    *)
(* any payload the network or the backend can produce.                     *)
(* Coordinates are integers (millidegrees).                                *)
(***************************************************************************)
EXTENDS Integers, Sequences, FiniteSets, TLC

VARIABLES
    propertyMarkers,         \* main.js:8   tracked property markers (array)
    currentRouteLayer,       \* main.js:9   reference to the last drawn polyline
    userLocationMarker,      \* main.js:10  reference to the user marker
    mapLayers,               \* main.js:7   overlays currently added to the map
    mapView,                 \* main.js:7   centre / zoom of the map
    mapPopup,                \* main.js:7   the popup opened on the map
    propertyList,            \* #propertyList children (sidebar cards)
    resultCount,             \* #resultCount textContent
    locationField,           \* #location value (search form)
    estimatedPriceValue,     \* #estimated-price-value textContent
    estimationResultDisplay, \* #estimation-result style.display
    alertMsg,                \* message of the alert() raised by the last handler
    propReqs,                \* /api/properties and /api/search fetches in flight
    geocodeReqs,             \* /api/geocode fetches in flight
    routeReqs,               \* /api/route fetches in flight
    estimateReqs,            \* /api/estimate-price fetches in flight
    positionReqs,            \* getCurrentPosition queries in flight
    issued,                  \* number of requests issued so far, per kind
    ev,                      \* history: the handler that ran last, with its inputs
    lastArrived,             \* history: the property response that arrived last
    lastPass,                \* history: what the last displayProperties call was given
    lastRendered             \* history: the last result set displayProperties completed

vars == <<propertyMarkers, currentRouteLayer, userLocationMarker, mapLayers,
          mapView, mapPopup, propertyList, resultCount, locationField,
          estimatedPriceValue, estimationResultDisplay, alertMsg,
          propReqs, geocodeReqs, routeReqs, estimateReqs,
          positionReqs, issued, ev, lastArrived, lastPass, lastRendered>>

listingVars  == <<propertyMarkers, propertyList, resultCount, lastArrived, lastPass,
                  lastRendered, propReqs>>
routeVars    == <<currentRouteLayer, routeReqs>>
userVars     == <<userLocationMarker, positionReqs>>
estimateVars == <<estimatedPriceValue, estimationResultDisplay, estimateReqs>>

(***************************************************************************)
(* Bounds of the model.                                                    *)
(***************************************************************************)
MaxPropReq  == 3   \* property requests issued (the initial load included)
MaxProps    == 2   \* length of a result set
MaxGeoReq   == 2   \* geocoding requests issued
MaxRouteReq == 2   \* route requests issued
MaxPosReq   == 2   \* position queries issued
MaxEstReq   == 2   \* estimate requests issued

(***************************************************************************)
(* Program constants.                                                      *)
(***************************************************************************)
PriceCutoff   == 200000
LargeSize     == 50
SmallSize     == 40
InitialZoom   == 13
GeocodeZoom   == 14
UserZoom      == 15

Null == [kind |-> "null"]
NoAlert == ""
NoEvent == [op |-> "DOMContentLoaded"]

WindhoekLatLng == <<-22559, 17083>>

(***************************************************************************)
(* Data the backend and the device can send.                               *)
(***************************************************************************)
\* A Property of a response.  hasPrice = FALSE is a listing whose price is
\* null or missing in the JSON.
Property(lat, lng, price, hasPrice) ==
    [lat |-> lat, lng |-> lng, price |-> price, hasPrice |-> hasPrice]

Properties ==
    { Property(-22560, 17080, 150000, TRUE),
      Property(-22570, 17090, 250000, TRUE),
      Property(-22580, 17100, 0, FALSE) }

\* The listing the backend serves while routes are studied.
Listing == << Property(-22560, 17080, 150000, TRUE), Property(-22570, 17090, 250000, TRUE) >>

RECURSIVE SeqsUpTo(_, _)
SeqsUpTo(S, n) ==
    IF n = 0 THEN { <<>> }
    ELSE LET shorter == SeqsUpTo(S, n - 1)
         IN  shorter \cup { Append(s, x) : s \in { t \in shorter : Len(t) = n - 1 }, x \in S }

\* What a fetch of /api/properties or /api/search can end in: the fetch is
\* rejected, the body is not JSON, the JSON is not an array, or it is an array.
PropertyPayloads ==
    { [kind |-> "reject", items |-> <<>>],
      [kind |-> "unparseable", items |-> <<>>],
      [kind |-> "object", items |-> <<>>] }
    \cup { [kind |-> "array", items |-> s] : s \in SeqsUpTo(Properties, MaxProps) }

GeoPoints == { <<-22500, 17000>>, <<-22600, 17100>> }

LocationTexts == { "", "Katutura", "Klein Windhoek" }

\* What a fetch of /api/geocode can end in.
GeocodePayloads ==
    { [kind |-> k, success |-> FALSE, latlng |-> WindhoekLatLng, hasError |-> FALSE, error |-> ""]
        : k \in {"reject", "unparseable"} }
    \cup { [kind |-> "json", success |-> TRUE, latlng |-> p, hasError |-> FALSE, error |-> ""]
        : p \in GeoPoints }
    \cup { [kind |-> "json", success |-> FALSE, latlng |-> WindhoekLatLng, hasError |-> TRUE, error |-> e]
        : e \in {"Not found", ""} }
    \cup { [kind |-> "json", success |-> FALSE, latlng |-> WindhoekLatLng, hasError |-> FALSE, error |-> ""] }

(***************************************************************************)
(* displayProperties and its callees.  The render state st carries the     *)
(* globals and DOM parts a render pass writes; threw records an exception  *)
(* leaving the pass.                                                       *)
(***************************************************************************)
\* A tier that counts the cutoff price itself as large.
MarkerSizeFromCutoff(property) ==
    IF property.hasPrice /\ property.price >= PriceCutoff THEN LargeSize ELSE SmallSize

\* main.js:129  const markerSize = property.price > 200000 ? 50 : 40;
\* (a missing price compares false)
MarkerSize(property) ==
    IF property.hasPrice /\ property.price > PriceCutoff THEN LargeSize ELSE SmallSize

\* The marker object created at main.js:137 for item idx of render pass `pass`.
PropertyMarker(pass, idx, property) ==
    [kind |-> "property", pass |-> pass, idx |-> idx,
     lat |-> property.lat, lng |-> property.lng, size |-> MarkerSize(property)]

\* The card created at main.js:179.
PropertyCard(pass, idx, property) ==
    [pass |-> pass, idx |-> idx, price |-> property.price,
     lat |-> property.lat, lng |-> property.lng]

\* property.price.toLocaleString() at main.js:132 throws a TypeError when the
\* price is null or undefined, before the marker is created.
AddPropertyToMap(st, pass, idx, property) ==
    IF ~property.hasPrice
    THEN [st EXCEPT !.threw = TRUE]
    ELSE LET marker == PropertyMarker(pass, idx, property)
         IN  [st EXCEPT !.layers = @ \cup {marker},
                        !.markers = Append(@, marker)]

AddPropertyToList(st, pass, idx, property) ==
    IF ~property.hasPrice
    THEN [st EXCEPT !.threw = TRUE]
    ELSE [st EXCEPT !.list = Append(@, PropertyCard(pass, idx, property))]

\* A clearing that takes every marker of a listing or of a location search off
\* the map.
ClearPropertyMarkersAndLocations(st) ==
    [st EXCEPT !.layers = { l \in @ : l.kind \notin {"property", "location"} },
               !.markers = <<>>]

\* A clearing that forgets the markers without taking them off the map.
ClearPropertyMarkersKeepsLayers(st) ==
    [st EXCEPT !.markers = <<>>]

\* main.js:205-210
ClearPropertyMarkers(st) ==
    [st EXCEPT !.layers = @ \ { st.markers[i] : i \in 1..Len(st.markers) },
               !.markers = <<>>]

\* properties.forEach(...) at main.js:117-120, from item idx on.
RECURSIVE ForEachProperty(_, _, _, _)
ForEachProperty(st, pass, properties, idx) ==
    IF idx > Len(properties) THEN st
    ELSE LET s1 == AddPropertyToMap(st, pass, idx, properties[idx])
         IN  IF s1.threw THEN s1
             ELSE LET s2 == AddPropertyToList(s1, pass, idx, properties[idx])
                  IN  IF s2.threw THEN s2
                      ELSE ForEachProperty(s2, pass, properties, idx + 1)

\* main.js:108-124.  A JSON value that is no array has no forEach: the call at
\* line 117 throws after the display was cleared.
DisplayProperties(st, pass, payload) ==
    LET cleared == [ClearPropertyMarkers(st) EXCEPT !.list = <<>>]
    IN  IF payload.kind # "array"
        THEN [cleared EXCEPT !.threw = TRUE]
        ELSE LET done == ForEachProperty(cleared, pass, payload.items, 1)
             IN  IF done.threw THEN done
                 ELSE [done EXCEPT !.count = ToString(Len(payload.items))]

RenderState ==
    [markers |-> propertyMarkers, layers |-> mapLayers, list |-> propertyList,
     count |-> resultCount, threw |-> FALSE]

(***************************************************************************)
(* Initial state: DOMContentLoaded has run initMap, initUI, loadProperties.*)
(***************************************************************************)
Init ==
    /\ propertyMarkers = <<>>
    /\ currentRouteLayer = Null
    /\ userLocationMarker = Null
    /\ mapLayers = {}
    /\ mapView = [mode |-> "view", at |-> <<WindhoekLatLng>>, zoom |-> InitialZoom]
    /\ mapPopup = Null
    /\ propertyList = <<>>
    /\ resultCount = ""
    /\ locationField = ""
    /\ estimatedPriceValue = <<>>
    /\ estimationResultDisplay = "none"
    /\ alertMsg = NoAlert
    /\ propReqs = { [id |-> 1, kind |-> "load", location |-> ""] }
    /\ geocodeReqs = {}
    /\ routeReqs = {}
    /\ estimateReqs = {}
    /\ positionReqs = {}
    /\ issued = [prop |-> 1, geocode |-> 0, route |-> 0, estimate |-> 0, position |-> 0]
    /\ ev = NoEvent
    /\ lastArrived = Null
    /\ lastPass = Null
    /\ lastRendered = Null

(***************************************************************************)
(* Listing renderer: loadProperties, searchProperties and their callbacks. *)
(***************************************************************************)
\* The writes of one displayProperties call.  lastRendered follows the passes
\* that ran to the end.
ApplyRender(st, pass, payload) ==
    /\ propertyMarkers' = st.markers
    /\ mapLayers' = st.layers
    /\ propertyList' = st.list
    /\ resultCount' = st.count
    /\ lastPass' = [kind |-> payload.kind, id |-> pass, items |-> payload.items]
    /\ lastRendered' = IF st.threw THEN lastRendered
                       ELSE [kind |-> "set", pass |-> pass, items |-> payload.items]

Arrival(r, payload) ==
    [kind |-> payload.kind, id |-> r.id, items |-> payload.items]

\* Geocoding requests the search path is still going to issue.
PendingSearchLocations == Cardinality({ r \in propReqs : r.kind = "search" /\ r.location # "" })

\* main.js:313-322.  locationQuery is the argument ("" when called without one),
\* fieldValue the value of #locationSearch.
SearchLocation(locationQuery, fieldValue) ==
    LET query == IF locationQuery = "" THEN fieldValue ELSE locationQuery
    IN  IF query = ""
        THEN UNCHANGED <<geocodeReqs, issued>>
        ELSE /\ geocodeReqs' = geocodeReqs \cup { [id |-> issued.geocode + 1, query |-> query] }
             /\ issued' = [issued EXCEPT !.geocode = @ + 1]

\* The user edits the #location field of the search form.
SetLocationField(v) ==
    /\ v # locationField
    /\ locationField' = v
    /\ ev' = [op |-> "input", id |-> 0]
    /\ alertMsg' = NoAlert
    /\ UNCHANGED <<listingVars, routeVars, userVars, estimateVars, mapLayers, mapView,
                   mapPopup, geocodeReqs, issued>>

\* main.js:248-297  form submission: the criteria are read and the POST is sent.
SearchProperties ==
    /\ issued.prop < MaxPropReq
    /\ locationField # "" => issued.geocode + PendingSearchLocations < MaxGeoReq
    /\ propReqs' = propReqs \cup
           { [id |-> issued.prop + 1, kind |-> "search", location |-> locationField] }
    /\ issued' = [issued EXCEPT !.prop = @ + 1]
    /\ ev' = [op |-> "searchProperties", id |-> issued.prop + 1]
    /\ alertMsg' = NoAlert
    /\ UNCHANGED <<propertyMarkers, propertyList, resultCount, lastArrived, lastPass,
                   lastRendered, routeVars, userVars, estimateVars, mapLayers, mapView, mapPopup, geocodeReqs, locationField>>

\* main.js:98-104  the callbacks of the fetch in loadProperties.
LoadPropertiesResponse(r, payload) ==
    /\ r \in propReqs /\ r.kind = "load"
    /\ propReqs' = propReqs \ {r}
    /\ lastArrived' = Arrival(r, payload)
    /\ alertMsg' = NoAlert
    /\ IF payload.kind \in {"reject", "unparseable"}
       THEN /\ UNCHANGED <<propertyMarkers, mapLayers, propertyList, resultCount, lastPass,
                           lastRendered>>
            /\ ev' = [op |-> "loadPropertiesResponse", id |-> r.id, kind |-> payload.kind,
                      threw |-> FALSE]
       ELSE LET st == DisplayProperties(RenderState, r.id, payload)
            IN  /\ ApplyRender(st, r.id, payload)
                /\ ev' = [op |-> "loadPropertiesResponse", id |-> r.id, kind |-> payload.kind,
                          threw |-> st.threw]
    /\ UNCHANGED <<routeVars, userVars, estimateVars, mapView, mapPopup,
                   geocodeReqs, issued, locationField>>

\* A controller that reads the #location field again when the response arrives.
SearchThenReadsField(r, payload) ==
    LET st == DisplayProperties(RenderState, r.id, payload)
    IN  /\ ApplyRender(st, r.id, payload)
        /\ IF st.threw \/ locationField = ""
           THEN UNCHANGED <<geocodeReqs, issued>>
           ELSE SearchLocation(locationField, "")
        /\ ev' = [op |-> "searchPropertiesResponse", id |-> r.id, kind |-> payload.kind,
                  threw |-> st.threw, location |-> r.location]

\* main.js:299-306  .then(properties => ...): the display is replaced, then the
\* map is centred on the location the search was submitted with.
SearchThen(r, payload) ==
    LET st == DisplayProperties(RenderState, r.id, payload)
    IN  /\ ApplyRender(st, r.id, payload)
        /\ IF st.threw \/ r.location = ""
           THEN UNCHANGED <<geocodeReqs, issued>>
           ELSE SearchLocation(r.location, "")
        /\ ev' = [op |-> "searchPropertiesResponse", id |-> r.id, kind |-> payload.kind,
                  threw |-> st.threw, location |-> r.location]

\* A catch that empties the display when the search failed.
SearchCatchClears(r, payload) ==
    /\ LET cleared == [ClearPropertyMarkers(RenderState) EXCEPT !.list = <<>>]
       IN  /\ propertyMarkers' = cleared.markers
           /\ mapLayers' = cleared.layers
           /\ propertyList' = cleared.list
    /\ UNCHANGED <<resultCount, lastPass, lastRendered, geocodeReqs, issued>>
    /\ ev' = [op |-> "searchPropertiesResponse", id |-> r.id, kind |-> payload.kind,
              threw |-> FALSE, location |-> r.location]

\* main.js:307-309  .catch(...): the error is logged.
SearchCatch(r, payload) ==
    /\ UNCHANGED <<propertyMarkers, mapLayers, propertyList, resultCount, lastPass,
                   lastRendered, geocodeReqs, issued>>
    /\ ev' = [op |-> "searchPropertiesResponse", id |-> r.id, kind |-> payload.kind,
              threw |-> FALSE, location |-> r.location]

\* A controller that drops the response of a search that is no longer the latest
\* property request.
SearchPropertiesResponseLatestOnly(r, payload) ==
    /\ r \in propReqs /\ r.kind = "search"
    /\ propReqs' = propReqs \ {r}
    /\ lastArrived' = Arrival(r, payload)
    /\ alertMsg' = NoAlert
    /\ IF payload.kind \in {"reject", "unparseable"} \/ r.id < issued.prop
       THEN SearchCatch(r, payload)
       ELSE SearchThen(r, payload)
    /\ UNCHANGED <<routeVars, userVars, estimateVars, mapView, mapPopup, locationField>>

\* main.js:298-309  the callbacks of the fetch in searchProperties.
SearchPropertiesResponse(r, payload) ==
    /\ r \in propReqs /\ r.kind = "search"
    /\ propReqs' = propReqs \ {r}
    /\ lastArrived' = Arrival(r, payload)
    /\ alertMsg' = NoAlert
    /\ IF payload.kind \in {"reject", "unparseable"}
       THEN SearchCatch(r, payload)
       ELSE SearchThen(r, payload)
    /\ UNCHANGED <<routeVars, userVars, estimateVars, mapView, mapPopup, locationField>>

\* main.js:83-92  the location search button (or Enter in the field):
\* searchLocation() without an argument.
SearchLocationClick(fieldValue) ==
    /\ fieldValue # "" => issued.geocode + PendingSearchLocations < MaxGeoReq
    /\ SearchLocation("", fieldValue)
    /\ ev' = [op |-> "searchLocation", id |-> 0, query |-> fieldValue]
    /\ alertMsg' = NoAlert
    /\ UNCHANGED <<listingVars, routeVars, userVars, estimateVars, mapLayers, mapView,
                   mapPopup, locationField>>

\* main.js:323-339  the callbacks of the fetch in searchLocation.
GeocodeResponse(g, payload) ==
    /\ g \in geocodeReqs
    /\ geocodeReqs' = geocodeReqs \ {g}
    /\ ev' = [op |-> "geocodeResponse", id |-> g.id, kind |-> payload.kind,
              success |-> payload.success, hasError |-> payload.hasError,
              error |-> payload.error]
    /\ IF payload.kind # "json"
       THEN /\ alertMsg' = NoAlert
            /\ UNCHANGED <<mapView, mapLayers, mapPopup>>
       ELSE IF payload.success
       THEN LET marker == [kind |-> "location", id |-> g.id,
                           lat |-> payload.latlng[1], lng |-> payload.latlng[2]]
            IN  /\ mapView' = [mode |-> "view", at |-> <<payload.latlng>>, zoom |-> GeocodeZoom]
                /\ mapLayers' = mapLayers \cup {marker}
                /\ mapPopup' = [kind |-> "location", at |-> payload.latlng]
                /\ alertMsg' = NoAlert
       ELSE /\ alertMsg' = (IF payload.hasError /\ payload.error # ""
                            THEN payload.error ELSE "Location not found")
            /\ UNCHANGED <<mapView, mapLayers, mapPopup>>
    /\ UNCHANGED <<listingVars, routeVars, userVars, estimateVars,
                   issued, locationField>>


(***************************************************************************)
(* Location services: getUserLocation and the callbacks of the position    *)
(* query.                                                                  *)
(***************************************************************************)
UserPoints == { <<-22550, 17050>>, <<-22540, 17060>> }

\* Waypoint arrays of a route response: none, one, two (in either order).
WaypointLists ==
    { <<>>,
      << <<-22555, 17065>> >>,
      << <<-22555, 17065>>, <<-22565, 17075>> >>,
      << <<-22565, 17075>>, <<-22555, 17065>> >> }

\* What a fetch of /api/route can end in.  A success response without a
\* waypoints array makes the spread at main.js:355 throw.
RoutePayloads ==
    { [kind |-> k, success |-> FALSE, hasWaypoints |-> FALSE, waypoints |-> <<>>]
        : k \in {"reject", "unparseable"} }
    \cup { [kind |-> "json", success |-> FALSE, hasWaypoints |-> FALSE, waypoints |-> <<>>],
           [kind |-> "json", success |-> TRUE, hasWaypoints |-> FALSE, waypoints |-> <<>>] }
    \cup { [kind |-> "json", success |-> TRUE, hasWaypoints |-> TRUE, waypoints |-> w]
        : w \in WaypointLists }

(***************************************************************************)
(* Numbers as text: parseFloat and the decimal digits of a number.         *)
(***************************************************************************)
DigitChars == <<"0", "1", "2", "3", "4", "5", "6", "7", "8", "9">>

IsDigit(c) == \E d \in 1..10 : DigitChars[d] = c

DigitVal(c) == (CHOOSE d \in 1..10 : DigitChars[d] = c) - 1

RECURSIVE Pow10(_)
Pow10(n) == IF n = 0 THEN 1 ELSE 10 * Pow10(n - 1)

\* Index of the first character at or after i that is no white space.
RECURSIVE SkipSpace(_, _)
SkipSpace(s, i) == IF i <= Len(s) /\ s[i] = " " THEN SkipSpace(s, i + 1) ELSE i

\* Index after the longest run of digits that starts at i.
RECURSIVE RunEnd(_, _)
RunEnd(s, i) == IF i <= Len(s) /\ IsDigit(s[i]) THEN RunEnd(s, i + 1) ELSE i

\* Value of the digits s[i..j] (0 for an empty range).
RECURSIVE DigitsValue(_, _, _)
DigitsValue(s, i, j) ==
    IF j < i THEN 0 ELSE 10 * DigitsValue(s, i, j - 1) + DigitVal(s[j])

\* parseFloat (main.js:389): leading white space and one sign are skipped, then
\* the longest prefix digits [. digits] is read; without any digit the result
\* is NaN.  The result is neg * num / den.  (Exponents and "Infinity" are not
\* read: no text of AreaTexts holds one.)
ParseFloat(s) ==
    LET first   == SkipSpace(s, 1)
        signed  == first <= Len(s) /\ s[first] \in {"-", "+"}
        start   == IF signed THEN first + 1 ELSE first
        intEnd  == RunEnd(s, start)
        hasDot  == intEnd <= Len(s) /\ s[intEnd] = "."
        fracEnd == IF hasDot THEN RunEnd(s, intEnd + 1) ELSE intEnd
        nInt    == intEnd - start
        nFrac   == IF hasDot THEN fracEnd - intEnd - 1 ELSE 0
    IN  IF nInt + nFrac = 0
        THEN [nan |-> TRUE, neg |-> FALSE, num |-> 0, den |-> 1]
        ELSE [nan |-> FALSE,
              neg |-> (signed /\ s[first] = "-"),
              num |-> DigitsValue(s, start, intEnd - 1) * Pow10(nFrac)
                        + DigitsValue(s, intEnd + 1, fracEnd - 1),
              den |-> Pow10(nFrac)]

\* Decimal digits of a natural number.
RECURSIVE Decimal(_)
Decimal(n) == IF n < 10 THEN <<DigitChars[n + 1]>> ELSE Decimal(n \div 10) \o <<DigitChars[(n % 10) + 1]>>

\* Coordinates are whole thousandths of a degree.  main.js:146 writes them
\* into the data-lat / data-lng attributes of the route button as decimal text
\* (as many fraction digits as needed; three are written here, the trailing
\* zeros read back the same).
CoordText(c) ==
    LET a    == IF c < 0 THEN 0 - c ELSE c
        frac == a % 1000
    IN  (IF c < 0 THEN <<"-">> ELSE <<>>)
        \o Decimal(a \div 1000) \o <<".">>
        \o <<DigitChars[(frac \div 100) + 1], DigitChars[((frac \div 10) % 10) + 1],
              DigitChars[(frac % 10) + 1]>>

\* main.js:155-156  parseFloat(this.dataset.lat), in thousandths of a degree.
CoordOfText(s) ==
    LET x == ParseFloat(s)
        a == (x.num * 1000) \div x.den
    IN  IF x.neg THEN 0 - a ELSE a

\* Route requests the pending position queries are still going to issue.
PendingRoutes == Cardinality({ q \in positionReqs : q.callback # Null })

\* main.js:345-347  the layer currentRouteLayer refers to leaves the map; the
\* reference itself is not reset.
RemoveCurrentRoute(layers) ==
    IF currentRouteLayer # Null THEN layers \ {currentRouteLayer} ELSE layers

\* main.js:343-350  showRoute up to the fetch.  layers are the map's overlays
\* when showRoute is entered.
ShowRoute(layers, start, end) ==
    /\ mapLayers' = RemoveCurrentRoute(layers)
    /\ routeReqs' = routeReqs \cup { [id |-> issued.route + 1, start |-> start, end |-> end] }
    /\ issued' = [issued EXCEPT !.route = @ + 1]

\* main.js:213-245  getUserLocation up to the position query.  supported is
\* the value of navigator.geolocation the call reads.
GetUserLocation(callback, supported) ==
    IF supported
    THEN /\ positionReqs' = positionReqs \cup { [id |-> issued.position + 1, callback |-> callback] }
         /\ issued' = [issued EXCEPT !.position = @ + 1]
         /\ alertMsg' = NoAlert
    ELSE /\ alertMsg' = "Geolocation is not supported by your browser."
         /\ UNCHANGED <<positionReqs, issued>>

\* main.js:61-63  the current location button.
CurrentLocationClick(supported) ==
    /\ supported => issued.position < MaxPosReq
    /\ GetUserLocation(Null, supported)
    /\ ev' = [op |-> "getUserLocation", id |-> 0, callback |-> Null, supported |-> supported]
    /\ UNCHANGED <<listingVars, routeVars, estimateVars, userLocationMarker, mapLayers,
                   mapView, mapPopup, geocodeReqs, locationField>>

\* A handler that looks the position up again even when the user marker exists.
RouteBtnClickAlwaysLocates(m, supported) ==
    LET lat == CoordOfText(CoordText(m.lat))
        lng == CoordOfText(CoordText(m.lng))
    IN  /\ m \in mapLayers /\ m.kind = "property"
        /\ issued.route + PendingRoutes < MaxRouteReq
        /\ mapPopup' = [kind |-> "property", at |-> <<m.lat, m.lng>>]
        /\ supported => issued.position < MaxPosReq
        /\ GetUserLocation([kind |-> "showRoute", lat |-> lat, lng |-> lng], supported)
        /\ UNCHANGED <<mapLayers, routeReqs>>
        /\ ev' = [op |-> "routeBtnClick", id |-> 0, lat |-> m.lat, lng |-> m.lng,
                  hadUserMarker |-> (userLocationMarker # Null), supported |-> supported]
        /\ UNCHANGED <<listingVars, estimateVars, currentRouteLayer, userLocationMarker,
                       mapView, geocodeReqs, locationField>>

\* main.js:153-170  the popup of property marker m is opened and its route
\* button clicked.  lat / lng are the marker's coordinates, written into the
\* button's data attributes at main.js:146.
RouteBtnClick(m, supported) ==
    LET lat == CoordOfText(CoordText(m.lat))
        lng == CoordOfText(CoordText(m.lng))
    IN  /\ m \in mapLayers /\ m.kind = "property"
        /\ issued.route + PendingRoutes < MaxRouteReq
        /\ mapPopup' = [kind |-> "property", at |-> <<m.lat, m.lng>>]
        /\ IF userLocationMarker # Null
           THEN /\ ShowRoute(mapLayers, userLocationMarker.latlng, <<lat, lng>>)
                /\ alertMsg' = NoAlert
                /\ UNCHANGED positionReqs
           ELSE /\ supported => issued.position < MaxPosReq
                /\ GetUserLocation([kind |-> "showRoute", lat |-> lat, lng |-> lng], supported)
                /\ UNCHANGED <<mapLayers, routeReqs>>
        /\ ev' = [op |-> "routeBtnClick", id |-> 0, lat |-> m.lat, lng |-> m.lng,
                  hadUserMarker |-> (userLocationMarker # Null), supported |-> supported]
        /\ UNCHANGED <<listingVars, estimateVars, currentRouteLayer, userLocationMarker,
                       mapView, geocodeReqs, locationField>>

\* A controller that creates a marker at every resolution.
UpdateUserMarkerAlwaysCreate(q, latlng) ==
    [marker |-> [kind |-> "user", id |-> q.id, latlng |-> latlng],
     layers |-> mapLayers \cup { [kind |-> "user", id |-> q.id] }]

\* main.js:219-231  the marker is moved when there is one, created and added to
\* the map otherwise.  The result is the new reference and the map's overlays.
UpdateUserMarker(q, latlng) ==
    IF userLocationMarker # Null
    THEN [marker |-> [userLocationMarker EXCEPT !.latlng = latlng],
          layers |-> mapLayers]
    ELSE [marker |-> [kind |-> "user", id |-> q.id, latlng |-> latlng],
          layers |-> mapLayers \cup { [kind |-> "user", id |-> q.id] }]

\* main.js:215-237  the success callback of getCurrentPosition.
PositionSuccess(q, latlng) ==
    /\ q \in positionReqs
    /\ positionReqs' = positionReqs \ {q}
    /\ LET updated == UpdateUserMarker(q, latlng)
       IN  /\ userLocationMarker' = updated.marker
           /\ IF q.callback # Null
              THEN ShowRoute(updated.layers, latlng, <<q.callback.lat, q.callback.lng>>)
              ELSE /\ mapLayers' = updated.layers
                   /\ UNCHANGED <<routeReqs, issued>>
    /\ mapView' = [mode |-> "view", at |-> <<latlng>>, zoom |-> UserZoom]
    /\ alertMsg' = NoAlert
    /\ ev' = [op |-> "positionSuccess", id |-> q.id, latlng |-> latlng, callback |-> q.callback]
    /\ UNCHANGED <<listingVars, estimateVars, currentRouteLayer, mapPopup,
                   geocodeReqs, locationField>>

\* A controller that recentres the map on the default view when the position
\* query fails.
PositionErrorRecentres(q) ==
    /\ q \in positionReqs
    /\ positionReqs' = positionReqs \ {q}
    /\ alertMsg' = "Could not determine your location. Please allow location access."
    /\ mapView' = [mode |-> "view", at |-> <<WindhoekLatLng>>, zoom |-> InitialZoom]
    /\ ev' = [op |-> "positionError", id |-> q.id, callback |-> q.callback]
    /\ UNCHANGED <<listingVars, routeVars, estimateVars, userLocationMarker, mapLayers,
                   mapPopup, geocodeReqs, issued, locationField>>

\* main.js:238-241  the error callback of getCurrentPosition.
PositionError(q) ==
    /\ q \in positionReqs
    /\ positionReqs' = positionReqs \ {q}
    /\ alertMsg' = "Could not determine your location. Please allow location access."
    /\ ev' = [op |-> "positionError", id |-> q.id, callback |-> q.callback]
    /\ UNCHANGED <<listingVars, routeVars, estimateVars, userLocationMarker, mapLayers,
                   mapView, mapPopup, geocodeReqs, issued, locationField>>

(***************************************************************************)
(* Route requester: the callbacks of the fetch in showRoute.               *)
(***************************************************************************)
Min(a, b) == IF a < b THEN a ELSE b
Max(a, b) == IF a > b THEN a ELSE b

\* getBounds() of a polyline: south-west and north-east corners.
RECURSIVE Bounds(_)
Bounds(points) ==
    IF Len(points) = 1 THEN <<points[1], points[1]>>
    ELSE LET b == Bounds(Tail(points))
             p == points[1]
         IN  << <<Min(p[1], b[1][1]), Min(p[2], b[1][2])>>,
                <<Max(p[1], b[2][1]), Max(p[2], b[2][2])>> >>

\* A line drawn through the two end points first and the waypoints after them.
RoutePointsWaypointsLast(r, payload) == <<r.start, r.end>> \o payload.waypoints

\* main.js:355  [routeData.start, ...routeData.waypoints, routeData.end]; the
\* backend answers with the end points it was asked for.
RoutePoints(r, payload) == <<r.start>> \o payload.waypoints \o <<r.end>>

\* main.js:351-379
RouteResponse(r, payload) ==
    /\ r \in routeReqs
    /\ routeReqs' = routeReqs \ {r}
    /\ alertMsg' = NoAlert
    /\ ev' = [op |-> "routeResponse", id |-> r.id, kind |-> payload.kind,
              success |-> payload.success, hasWaypoints |-> payload.hasWaypoints,
              waypoints |-> payload.waypoints]
    /\ IF payload.kind = "json" /\ payload.success /\ payload.hasWaypoints
       THEN LET points == RoutePoints(r, payload)
                layer  == [kind |-> "route", id |-> r.id, points |-> points]
            IN  /\ currentRouteLayer' = layer
                /\ mapLayers' = mapLayers \cup {layer}
                /\ mapView' = [mode |-> "bounds", at |-> Bounds(points), zoom |-> 0]
                /\ mapPopup' = [kind |-> "route", at |-> points[(Len(points) \div 2) + 1]]
       ELSE UNCHANGED <<currentRouteLayer, mapLayers, mapView, mapPopup>>
    /\ UNCHANGED <<listingVars, userVars, estimateVars, geocodeReqs,
                   issued, locationField>>

(***************************************************************************)
(* Price estimate: calculatePriceEstimate and the callbacks of its fetch.  *)
(* Field texts and displayed texts are sequences of characters.            *)
(***************************************************************************)
\* area <= 0 for a parsed number (-0 <= 0 holds).
LeqZero(x) == x.neg \/ x.num = 0

\* Texts of the #est-area field.
AreaTexts ==
    { <<>>, <<"a", "b">>, <<"0">>, <<"-", "5">>, <<"1", "2", "0">>, <<"0", ".", "5">>,
      <<".", "5">>, <<"-", "0", ".", "5">>, <<"1", "2", "a">>, <<" ", "7">>, <<"-">>,
      <<".">>, <<"0", ".", "0">>, <<"-", "0">> }

PropertyTypeTexts == { "", "residential" }

EstLocationTexts == { "", "Windhoek" }

\* What a fetch of /api/estimate-price can end in.
EstimatePayloads ==
    { [kind |-> k, hasPrice |-> FALSE, price |-> 0] : k \in {"reject", "unparseable"} }
    \cup { [kind |-> "json", hasPrice |-> FALSE, price |-> 0] }
    \cup { [kind |-> "json", hasPrice |-> TRUE, price |-> n] : n \in {0, 950, 1250000} }

\* Number.prototype.toLocaleString() of a natural number in the en-US locale:
\* groups of three digits separated by commas.
RECURSIVE ToLocaleString(_)
ToLocaleString(n) ==
    IF n < 1000 THEN Decimal(n)
    ELSE LET low == n % 1000
         IN  ToLocaleString(n \div 1000) \o <<",">>
               \o <<DigitChars[(low \div 100) + 1], DigitChars[((low \div 10) % 10) + 1],
                    DigitChars[(low % 10) + 1]>>

\* A validation that lets an area of zero through (area < 0 for area <= 0).
InvalidEstimateZeroPasses(propertyType, location, area) ==
    propertyType = "" \/ location = "" \/ area.nan \/ (area.neg /\ area.num > 0)

\* main.js:402  the validation that blocks the request.
InvalidEstimate(propertyType, location, area) ==
    propertyType = "" \/ location = "" \/ area.nan \/ LeqZero(area)

\* main.js:383-431  the calculate button: the form is read, validated, and the
\* POST is sent.
CalculatePriceEstimate(propertyType, location, areaText) ==
    LET area == ParseFloat(areaText)
    IN  /\ IF InvalidEstimate(propertyType, location, area)
           THEN /\ alertMsg' = "Please fill in all required fields."
                /\ UNCHANGED <<estimateReqs, issued>>
           ELSE /\ issued.estimate < MaxEstReq
                /\ estimateReqs' = estimateReqs \cup
                       { [id |-> issued.estimate + 1, property_type |-> propertyType,
                          location |-> location, area |-> area] }
                /\ issued' = [issued EXCEPT !.estimate = @ + 1]
                /\ alertMsg' = NoAlert
        /\ ev' = [op |-> "calculatePriceEstimate", id |-> 0, propertyType |-> propertyType,
                  location |-> location, areaText |-> areaText]
        /\ UNCHANGED <<listingVars, routeVars, userVars, estimatedPriceValue,
                       estimationResultDisplay, mapLayers, mapView, mapPopup, geocodeReqs, locationField>>

\* A success callback that takes a price of 0 for a missing price.
EstimateResponseTruthyPrice(e, payload) ==
    /\ e \in estimateReqs
    /\ estimateReqs' = estimateReqs \ {e}
    /\ IF payload.kind = "json" /\ payload.hasPrice /\ payload.price # 0
       THEN /\ estimatedPriceValue' = <<"$">> \o ToLocaleString(payload.price)
            /\ estimationResultDisplay' = "block"
            /\ alertMsg' = NoAlert
       ELSE /\ alertMsg' = "An error occurred while calculating the price estimate."
            /\ UNCHANGED <<estimatedPriceValue, estimationResultDisplay>>
    /\ ev' = [op |-> "estimateResponse", id |-> e.id, kind |-> payload.kind,
              hasPrice |-> payload.hasPrice, price |-> payload.price]
    /\ UNCHANGED <<listingVars, routeVars, userVars, mapLayers, mapView, mapPopup, geocodeReqs, issued, locationField>>

\* main.js:432-441  the callbacks of the fetch.  Without estimated_price the
\* expression at line 435 throws before anything is written.
EstimateResponse(e, payload) ==
    /\ e \in estimateReqs
    /\ estimateReqs' = estimateReqs \ {e}
    /\ IF payload.kind = "json" /\ payload.hasPrice
       THEN /\ estimatedPriceValue' = <<"$">> \o ToLocaleString(payload.price)
            /\ estimationResultDisplay' = "block"
            /\ alertMsg' = NoAlert
       ELSE /\ alertMsg' = "An error occurred while calculating the price estimate."
            /\ UNCHANGED <<estimatedPriceValue, estimationResultDisplay>>
    /\ ev' = [op |-> "estimateResponse", id |-> e.id, kind |-> payload.kind,
              hasPrice |-> payload.hasPrice, price |-> payload.price]
    /\ UNCHANGED <<listingVars, routeVars, userVars, mapLayers, mapView, mapPopup, geocodeReqs, issued, locationField>>

\* The listing renderer alone: the initial load and searches, responses in any order.
RenderNext ==
    \/ SearchProperties
    \/ \E r \in propReqs, payload \in PropertyPayloads : LoadPropertiesResponse(r, payload)
    \/ \E r \in propReqs, payload \in PropertyPayloads : SearchPropertiesResponse(r, payload)

RenderSpec == Init /\ [][RenderNext]_vars

\* Geocoding from the location search box.
GeocodeNext ==
    \/ \E v \in LocationTexts : SearchLocationClick(v)
    \/ \E g \in geocodeReqs, payload \in GeocodePayloads : GeocodeResponse(g, payload)

GeocodeSpec == Init /\ [][GeocodeNext]_vars

\* Routes: the listing is loaded, then the user asks for their position and
\* for routes to the listed properties.
RouteNext ==
    \/ \E r \in propReqs : LoadPropertiesResponse(r, [kind |-> "array", items |-> Listing])
    \/ \E supported \in BOOLEAN : CurrentLocationClick(supported)
    \/ \E m \in mapLayers, supported \in BOOLEAN : RouteBtnClick(m, supported)
    \/ \E q \in positionReqs, latlng \in UserPoints : PositionSuccess(q, latlng)
    \/ \E q \in positionReqs : PositionError(q)
    \/ \E r \in routeReqs, payload \in RoutePayloads : RouteResponse(r, payload)

RouteSpec == Init /\ [][RouteNext]_vars

\* Directions: the listing is loaded and the user asks for routes from the
\* property popups only; the position is looked up by the first such click.
DirectionsNext ==
    \/ \E r \in propReqs : LoadPropertiesResponse(r, [kind |-> "array", items |-> Listing])
    \/ \E m \in mapLayers, supported \in BOOLEAN : RouteBtnClick(m, supported)
    \/ \E q \in positionReqs, latlng \in UserPoints : PositionSuccess(q, latlng)
    \/ \E q \in positionReqs : PositionError(q)
    \/ \E r \in routeReqs, payload \in RoutePayloads : RouteResponse(r, payload)

DirectionsSpec == Init /\ [][DirectionsNext]_vars

\* Prices around the cutoff of the marker tiers.
TierPrices == { 0, 199999, 200000, 200001, 250000 }

\* Result sets for the marker tiers: one listing of each price, and pairs whose
\* second listing is dearer, equally dear or cheaper than the first.
TierPayloads ==
    { [kind |-> "array", items |-> << Property(-22560, 17080, p, TRUE) >>] : p \in TierPrices }
    \cup { [kind |-> "array",
            items |-> << Property(-22560, 17080, 200000, TRUE), Property(-22570, 17090, p, TRUE) >>]
          : p \in {199999, 200000, 250000} }

\* Marker tiers: the initial load and searches answered with priced listings.
TierNext ==
    \/ SearchProperties
    \/ \E r \in propReqs, payload \in TierPayloads : LoadPropertiesResponse(r, payload)
    \/ \E r \in propReqs, payload \in TierPayloads : SearchPropertiesResponse(r, payload)

TierSpec == Init /\ [][TierNext]_vars

\* Location services: position queries from the current location button and
\* from route buttons, up to the route request the continuation issues.
UserNext ==
    \/ \E r \in propReqs : LoadPropertiesResponse(r, [kind |-> "array", items |-> Listing])
    \/ \E supported \in BOOLEAN : CurrentLocationClick(supported)
    \/ \E m \in mapLayers, supported \in BOOLEAN : RouteBtnClick(m, supported)
    \/ \E q \in positionReqs, latlng \in UserPoints : PositionSuccess(q, latlng)
    \/ \E q \in positionReqs : PositionError(q)

UserSpec == Init /\ [][UserNext]_vars

\* The price estimator.
EstimateNext ==
    \/ \E t \in PropertyTypeTexts, l \in EstLocationTexts, a \in AreaTexts :
           CalculatePriceEstimate(t, l, a)
    \/ \E e \in estimateReqs, payload \in EstimatePayloads : EstimateResponse(e, payload)

EstimateSpec == Init /\ [][EstimateNext]_vars

\* Texts of the #location field of the search form.
FieldTexts == { "", "Windhoek", "Katutura" }

\* Answers to a property request while the search path is studied: the three
\* failures (rejected, unparseable, no array), an empty set and the listing.
SearchPayloads ==
    { p \in PropertyPayloads : p.kind # "array" }
    \cup { [kind |-> "array", items |-> <<>>],
           [kind |-> "array", items |-> Listing] }

\* Answers to the geocoding request of a search: the fetch is rejected, the
\* place is found, or it is not.
SearchGeocodePayloads ==
    { p \in GeocodePayloads : p.kind = "reject" \/ (p.kind = "json" /\ ~p.hasError) }

\* Searches with a location: the form field is edited, searches are submitted,
\* and the property and geocoding responses arrive in any order.
SearchNext ==
    \/ \E v \in FieldTexts : SetLocationField(v)
    \/ SearchProperties
    \/ \E r \in propReqs, payload \in SearchPayloads : LoadPropertiesResponse(r, payload)
    \/ \E r \in propReqs, payload \in SearchPayloads : SearchPropertiesResponse(r, payload)
    \/ \E g \in geocodeReqs, payload \in SearchGeocodePayloads : GeocodeResponse(g, payload)

SearchSpec == Init /\ [][SearchNext]_vars

\* The whole controller.
Next == RenderNext \/ TierNext \/ GeocodeNext \/ RouteNext \/ UserNext \/ EstimateNext
            \/ \E v \in FieldTexts : SetLocationField(v)

Spec == Init /\ [][Next]_vars

(***************************************************************************)
(* Properties.                                                             *)
(***************************************************************************)
PropertyLayers(layers) == { l \in layers : l.kind = "property" }
RouteLayers(layers)    == { l \in layers : l.kind = "route" }
UserLayers(layers)     == { l \in layers : l.kind = "user" }

\* Every listing of the array has a price, so that rendering it does not throw.
WellFormed(items) == \A i \in 1..Len(items) : items[i].hasPrice

\* The markers and the cards of a result set rendered whole by pass `pass`.
MarkersOf(pass, items) == [i \in 1..Len(items) |-> PropertyMarker(pass, i, items[i])]
CardsOf(pass, items)   == [i \in 1..Len(items) |-> PropertyCard(pass, i, items[i])]

\* C1: whenever no render pass is executing, propertyMarkers holds exactly one
\* marker per property of the result set the most recent render pass was given
\* (as many markers as the set has properties, each created by that pass for
\* that property, none of an earlier pass).
C1_MarkersAreLastResultSet ==
    lastPass.kind = "array" => propertyMarkers = MarkersOf(lastPass.id, lastPass.items)

\* C5: when the loadProperties request fails (rejected fetch, unparseable
\* response, or an error raised while rendering), no request is issued again
\* and the display is empty: no tracked marker, no property marker on the map,
\* no sidebar card, hence nothing of a partly rendered result set.
C5_FailedLoadLeavesDisplayEmpty ==
    [][ (/\ ev'.op = "loadPropertiesResponse"
         /\ (ev'.kind \in {"reject", "unparseable"} \/ ev'.threw))
        => /\ propReqs' \subseteq propReqs
           /\ issued' = issued
           /\ propertyMarkers' = <<>>
           /\ PropertyLayers(mapLayers') = {}
           /\ propertyList' = <<>> ]_vars

\* C6: whenever no render pass is executing, the result count is the number of
\* properties of the last result set rendered to the end, and equals the number
\* of sidebar cards and the number of tracked markers.
C6_CountIsLastRenderedSet ==
    lastRendered # Null =>
        /\ resultCount = ToString(Len(lastRendered.items))
        /\ Len(propertyList) = Len(lastRendered.items)
        /\ Len(propertyMarkers) = Len(lastRendered.items)

\* C4: overlapping property requests are not serialized: the display (markers
\* tracked and on the map, sidebar cards, result count) is that of the
\* successful response that arrived last, whether or not its request is the
\* latest one issued.
C4_LastArrivedResponseIsDisplayed ==
    (lastArrived.kind = "array" /\ WellFormed(lastArrived.items)) =>
        /\ propertyMarkers = MarkersOf(lastArrived.id, lastArrived.items)
        /\ PropertyLayers(mapLayers) =
               { MarkersOf(lastArrived.id, lastArrived.items)[i] : i \in 1..Len(lastArrived.items) }
        /\ propertyList = CardsOf(lastArrived.id, lastArrived.items)
        /\ resultCount = ToString(Len(lastArrived.items))

\* C4 witness: every response has arrived, the one that arrived last belongs to
\* a request issued before another one, and its non-empty set is displayed.
C4_StaleResponseWins ==
    /\ propReqs = {}
    /\ lastArrived.kind = "array" /\ WellFormed(lastArrived.items)
    /\ Len(lastArrived.items) > 0
    /\ lastArrived.id < issued.prop
    /\ propertyMarkers = MarkersOf(lastArrived.id, lastArrived.items)
    /\ resultCount = ToString(Len(lastArrived.items))

\* C2: in every reachable state at most one route layer is on the map, for any
\* sequence of showRoute calls and any order of arrival of their responses.
C2_AtMostOneRouteLayer == Cardinality(RouteLayers(mapLayers)) <= 1

\* The area text reads as a strictly positive number.
StrictlyPositive(areaText) ==
    LET area == ParseFloat(areaText)
    IN  ~area.nan /\ ~area.neg /\ area.num > 0

\* C3: calculatePriceEstimate issues no request when the property type is empty,
\* the location is empty or the area is no strictly positive number; it then
\* shows the validation message and leaves the estimate display unchanged.
C3_InvalidEstimateIsNotSent ==
    [][ (/\ ev'.op = "calculatePriceEstimate"
         /\ (\/ ev'.propertyType = ""
             \/ ev'.location = ""
             \/ ~StrictlyPositive(ev'.areaText)))
        => /\ estimateReqs' = estimateReqs
           /\ issued' = issued
           /\ alertMsg' = "Please fill in all required fields."
           /\ estimatedPriceValue' = estimatedPriceValue
           /\ estimationResultDisplay' = estimationResultDisplay ]_vars

\* C3 witness: with the type and the location filled in and an area of "0", the
\* validation message was shown while an earlier estimate stays displayed and
\* no request is in flight.
C3_ZeroAreaRejected ==
    /\ ev.op = "calculatePriceEstimate"
    /\ ev.propertyType # "" /\ ev.location # "" /\ ev.areaText = <<"0">>
    /\ alertMsg = "Please fill in all required fields."
    /\ estimateReqs = {}
    /\ estimationResultDisplay = "block"

\* The geocoding request of the step failed: the fetch was rejected, the body is
\* not JSON, or the response says success = false.
GeocodeFailed(e) == e.kind # "json" \/ ~e.success

\* C7: every failed geocoding request surfaces a message to the user: the
\* server's error text when the response carries one, the generic text when it
\* carries none, and an alert as well when the request itself failed.
C7_GeocodeFailureIsSurfaced ==
    [][ (ev'.op = "geocodeResponse" /\ GeocodeFailed(ev'))
        => /\ alertMsg' # NoAlert
           /\ (ev'.kind = "json" /\ ev'.hasError /\ ev'.error # "") => alertMsg' = ev'.error
           /\ (ev'.kind = "json" /\ ~ev'.hasError) => alertMsg' = "Location not found" ]_vars

\* C8: the user-location marker is a singleton.  At most one is on the map, and
\* it is the one userLocationMarker refers to; a successful resolution creates
\* it when there is none and otherwise moves it, keeping the markers on the map
\* as they are; then the map is centred on the resolved position and the
\* continuation, if any, is called with it (a route request from the resolved
\* position to the continuation's property).
C8_UserMarkerIsSingleton ==
    [][ /\ Cardinality(UserLayers(mapLayers')) <= 1
        /\ userLocationMarker' # Null =>
               UserLayers(mapLayers') = { [kind |-> "user", id |-> userLocationMarker'.id] }
        /\ ev'.op = "positionSuccess" =>
              /\ userLocationMarker' # Null
              /\ userLocationMarker'.latlng = ev'.latlng
              /\ userLocationMarker # Null =>
                    /\ userLocationMarker'.id = userLocationMarker.id
                    /\ UserLayers(mapLayers') = UserLayers(mapLayers)
              /\ mapView' = [mode |-> "view", at |-> <<ev'.latlng>>, zoom |-> UserZoom]
              /\ IF ev'.callback # Null
                 THEN routeReqs' = routeReqs \cup
                          { [id |-> issued.route + 1, start |-> ev'.latlng,
                             end |-> <<ev'.callback.lat, ev'.callback.lng>>] }
                 ELSE routeReqs' = routeReqs ]_vars

\* C8 witness: two position queries were outstanding together; the later one
\* resolved first and created the marker, the earlier one then moved it and
\* called its continuation.
C8_SecondResolutionMovedMarker ==
    /\ ev.op = "positionSuccess"
    /\ userLocationMarker # Null
    /\ ev.id < userLocationMarker.id
    /\ userLocationMarker.latlng = ev.latlng
    /\ ev.callback # Null
    /\ Cardinality(UserLayers(mapLayers)) = 1
    /\ routeReqs # {}

\* The step is a getUserLocation that failed: the position query reported an
\* error, or the call found no geolocation capability.
GetUserLocationFailed(e, hadMarker) ==
    \/ e.op = "positionError"
    \/ e.op = "getUserLocation" /\ ~e.supported
    \/ e.op = "routeBtnClick" /\ ~hadMarker /\ ~e.supported

\* C9: when getUserLocation fails or finds no geolocation capability, a message
\* is shown and the map is not changed: the user marker and its position, the
\* map view, the property markers and the route layer stay as they are, and the
\* continuation is not called (no route request is issued).
C9_FailedLocationChangesNothing ==
    [][ GetUserLocationFailed(ev', userLocationMarker # Null)
        => /\ alertMsg' # NoAlert
           /\ userLocationMarker' = userLocationMarker
           /\ mapView' = mapView
           /\ mapLayers' = mapLayers
           /\ propertyMarkers' = propertyMarkers
           /\ currentRouteLayer' = currentRouteLayer
           /\ routeReqs' = routeReqs ]_vars

\* C9 witness: the position query of a route button failed after another query
\* had placed the user marker and moved the map.
C9_ContinuationDroppedOnError ==
    /\ ev.op = "positionError"
    /\ ev.callback # Null
    /\ alertMsg = "Could not determine your location. Please allow location access."
    /\ userLocationMarker # Null
    /\ mapView.zoom = UserZoom
    /\ propertyMarkers # <<>>
    /\ routeReqs = {}

\* C10: after a showRoute call whose request fails (rejected fetch or a response
\* with success false), no route layer is displayed on the map.
C10_NoRouteAfterFailedRequest ==
    [][ (/\ ev'.op = "routeResponse"
         /\ (ev'.kind = "reject" \/ (ev'.kind = "json" /\ ~ev'.success)))
        => RouteLayers(mapLayers') = {} ]_vars

(***************************************************************************)
(* Searches with a location (SearchSpec).                                  *)
(***************************************************************************)
LocationLayers(layers) == { l \in layers : l.kind = "location" }

\* The property requests answered by a step.
Answered == propReqs \ propReqs'

\* C11: submitting a search and editing the form issue no geocoding request;
\* the submitted request captures the #location field of that moment.  When
\* the response of a search has been rendered to the end and the captured
\* location is not empty, exactly one geocoding request is issued, carrying the
\* captured location (whatever the field holds by then) and following a
\* display made from that response; every other search response (failed, not
\* rendered to the end, or with an empty captured location) issues none.
C11_GeocodeFollowsSearchResponse ==
    [][ /\ ev'.op = "searchProperties"
           => /\ geocodeReqs' = geocodeReqs
              /\ \E r \in propReqs' \ propReqs :
                    /\ propReqs' = propReqs \cup {r}
                    /\ r.id = ev'.id
                    /\ r.location = locationField
        /\ ev'.op = "input"
           => /\ geocodeReqs' = geocodeReqs
              /\ propReqs' = propReqs
        /\ ev'.op = "searchPropertiesResponse"
           => /\ Cardinality(Answered) = 1
              /\ \A r \in Answered :
                    /\ r.id = ev'.id
                    /\ r.location = ev'.location
                    /\ IF ev'.kind = "array" /\ ~ev'.threw /\ r.location # ""
                       THEN /\ lastRendered'.pass = r.id
                            /\ propertyMarkers' = MarkersOf(r.id, lastRendered'.items)
                            /\ geocodeReqs \subseteq geocodeReqs'
                            /\ geocodeReqs' \ geocodeReqs =
                                  { [id |-> issued.geocode + 1, query |-> r.location] }
                            /\ issued'.geocode = issued.geocode + 1
                       ELSE /\ geocodeReqs' = geocodeReqs
                            /\ issued' = issued ]_vars

\* C11 witness: a search submitted with one location was answered and rendered
\* after the form field had been changed to another location; the geocoding
\* request just issued carries the submitted one.
C11_FieldChangedWhileSearching ==
    /\ ev.op = "searchPropertiesResponse"
    /\ ev.kind = "array" /\ ~ev.threw
    /\ ev.location # ""
    /\ locationField # ""
    /\ locationField # ev.location
    /\ [id |-> issued.geocode, query |-> ev.location] \in geocodeReqs
    /\ propertyMarkers # <<>>

(***************************************************************************)
(* Tracking of the property markers (RenderSpec).                          *)
(***************************************************************************)
\* C12: between handlers, the property markers on the map are exactly the
\* markers held in propertyMarkers, each held once: clearing takes every
\* tracked marker off the map, and every marker put on the map is tracked.
C12_MapMarkersAreTracked ==
    /\ PropertyLayers(mapLayers) = { propertyMarkers[i] : i \in 1..Len(propertyMarkers) }
    /\ Cardinality(PropertyLayers(mapLayers)) = Len(propertyMarkers)

\* C12 witness: a set rendered earlier was cleared by a later pass that stopped
\* part-way; the markers of that later pass are the only ones on the map.
C12_ClearedThenPartlyRendered ==
    /\ lastRendered # Null
    /\ lastRendered.items # <<>>
    /\ lastPass.id # lastRendered.pass
    /\ lastPass.kind = "array"
    /\ propertyMarkers # <<>>
    /\ \A i \in 1..Len(propertyMarkers) : propertyMarkers[i].pass = lastPass.id
    /\ PropertyLayers(mapLayers) = { propertyMarkers[i] : i \in 1..Len(propertyMarkers) }

(***************************************************************************)
(* Shape of the drawn route.                                               *)
(***************************************************************************)
\* The route requests answered by a step.
AnsweredRoutes == routeReqs \ routeReqs'

\* C13: a successful route response with n waypoints draws a line of exactly
\* n + 2 points: the start, the waypoints in the order of the response, the
\* end; the distance popup is anchored at the point of index floor((n + 2) / 2)
\* of that line (indices from 0).
C13_RouteLineShape ==
    [][ (/\ ev'.op = "routeResponse"
         /\ ev'.kind = "json" /\ ev'.success /\ ev'.hasWaypoints)
        => \A r \in AnsweredRoutes :
              LET n      == Len(ev'.waypoints)
                  points == currentRouteLayer'.points
              IN  /\ currentRouteLayer' \in mapLayers'
                  /\ Len(points) = n + 2
                  /\ points[1] = r.start
                  /\ \A i \in 1..n : points[i + 1] = ev'.waypoints[i]
                  /\ points[n + 2] = r.end
                  /\ mapPopup'.kind = "route"
                  /\ mapPopup'.at = points[((n + 2) \div 2) + 1] ]_vars

\* C13 witness: a response with two waypoints was drawn as four points and the
\* popup sits on the point of index 2, the second waypoint.
C13_TwoWaypointsDrawn ==
    /\ ev.op = "routeResponse"
    /\ ev.kind = "json" /\ ev.success /\ ev.hasWaypoints
    /\ Len(ev.waypoints) = 2
    /\ currentRouteLayer # Null
    /\ currentRouteLayer.id = ev.id
    /\ Len(currentRouteLayer.points) = 4
    /\ mapPopup = [kind |-> "route", at |-> ev.waypoints[2]]

(***************************************************************************)
(* Outcome of an estimate request (EstimateSpec).                          *)
(***************************************************************************)
\* The text shown for a price, written out for the prices of EstimatePayloads.
PriceText(price) ==
    CASE price = 0       -> <<"$", "0">>
      [] price = 950     -> <<"$", "9", "5", "0">>
      [] price = 1250000 -> <<"$", "1", ",", "2", "5", "0", ",", "0", "0", "0">>

\* The estimate requests answered by a step.
AnsweredEstimates == estimateReqs \ estimateReqs'

\* C14: the answer to an estimate request has exactly one of two outcomes.  A
\* response carrying estimated_price shows that price and makes the result area
\* visible, without an error message; any failure (rejected fetch, unparseable
\* body, response without estimated_price) shows the generic error message and
\* writes neither the price nor the visibility of the result area.
C14_EstimateHasOneOutcome ==
    [][ ev'.op = "estimateResponse"
        => /\ Cardinality(AnsweredEstimates) = 1
           /\ \A e \in AnsweredEstimates : e.id = ev'.id
           /\ IF ev'.kind = "json" /\ ev'.hasPrice
              THEN /\ estimatedPriceValue' = PriceText(ev'.price)
                   /\ estimationResultDisplay' = "block"
                   /\ alertMsg' = NoAlert
              ELSE /\ alertMsg' = "An error occurred while calculating the price estimate."
                   /\ estimatedPriceValue' = estimatedPriceValue
                   /\ estimationResultDisplay' = estimationResultDisplay ]_vars

\* C14 witness: a request failed after another had succeeded: the error message
\* is up and the result area still shows the earlier price.
C14_FailureAfterSuccess ==
    /\ ev.op = "estimateResponse"
    /\ ~(ev.kind = "json" /\ ev.hasPrice)
    /\ alertMsg = "An error occurred while calculating the price estimate."
    /\ estimationResultDisplay = "block"
    /\ estimatedPriceValue = PriceText(1250000)

(***************************************************************************)
(* Marker tiers (TierSpec).                                                *)
(***************************************************************************)
\* C15: the size of a property marker depends on the price of its listing
\* alone: 50 exactly when the price is above 200000, 40 otherwise (200000
\* itself gives 40), whatever was displayed before; a result set of one
\* listing priced 250000 gives exactly one marker, of size 50.
C15_TierFollowsPrice ==
    /\ \A i \in 1..Len(propertyMarkers) :
          LET m     == propertyMarkers[i]
              price == lastPass.items[m.idx].price
          IN  /\ m.pass = lastPass.id
              /\ m.size \in {40, 50}
              /\ m.size = 50 <=> price > 200000
              /\ m.size = 40 <=> price <= 200000
    /\ (/\ lastPass # Null
        /\ lastPass.kind = "array"
        /\ Len(lastPass.items) = 1
        /\ lastPass.items[1].hasPrice
        /\ lastPass.items[1].price = 250000)
       => /\ Len(propertyMarkers) = 1
          /\ propertyMarkers[1].size = 50
          /\ PropertyLayers(mapLayers) = { propertyMarkers[1] }

\* C15 witness: after an earlier pass with large markers, a listing priced
\* exactly 200000 is displayed with a small marker next to a large one.
C15_CutoffPriceIsSmall ==
    /\ lastPass # Null
    /\ lastPass.id > 1
    /\ Len(propertyMarkers) = 2
    /\ lastPass.items[1].price = 200000
    /\ propertyMarkers[1].size = 40
    /\ lastPass.items[2].price = 250000
    /\ propertyMarkers[2].size = 50

(***************************************************************************)
(* The route button (DirectionsSpec).                                      *)
(***************************************************************************)
\* The route request a step issues from start to end.
IssuesRoute(start, end) ==
    /\ routeReqs \subseteq routeReqs'
    /\ routeReqs' \ routeReqs = { [id |-> issued.route + 1, start |-> start, end |-> end] }

\* C16: a click on the route button of a property with a user marker on the
\* map issues one route request at once, from the marker's position to the
\* property's coordinates, and no position query.  Without a user marker the
\* click issues no route request: it starts a position query when the
\* capability is there, and nothing otherwise.  When that query resolves, one
\* route request is issued from the resolved position to the property's
\* coordinates; when it fails, none is issued and the route layer stays as it
\* is.  Route requests are issued by no other step.
C16_RouteButtonRequests ==
    [][ /\ (ev'.op = "routeBtnClick" /\ userLocationMarker # Null)
           => /\ IssuesRoute(userLocationMarker.latlng, <<ev'.lat, ev'.lng>>)
              /\ positionReqs' = positionReqs
        /\ (ev'.op = "routeBtnClick" /\ userLocationMarker = Null)
           => /\ routeReqs' = routeReqs
              /\ currentRouteLayer' = currentRouteLayer
              /\ mapLayers' = mapLayers
              /\ IF ev'.supported
                 THEN /\ positionReqs \subseteq positionReqs'
                      /\ positionReqs' \ positionReqs =
                            { [id |-> issued.position + 1,
                               callback |-> [kind |-> "showRoute", lat |-> ev'.lat,
                                             lng |-> ev'.lng]] }
                 ELSE positionReqs' = positionReqs
        /\ (ev'.op = "positionSuccess" /\ ev'.callback # Null)
           => /\ IssuesRoute(ev'.latlng, <<ev'.callback.lat, ev'.callback.lng>>)
              /\ \A q \in positionReqs' : q.id # ev'.id
        /\ (ev'.op = "positionError" /\ ev'.callback # Null)
           => /\ routeReqs' = routeReqs
              /\ \A q \in positionReqs' : q.id # ev'.id
              /\ currentRouteLayer' = currentRouteLayer
              /\ RouteLayers(mapLayers') = RouteLayers(mapLayers)
        /\ routeReqs' \ routeReqs # {}
           => \/ ev'.op = "routeBtnClick" /\ userLocationMarker # Null
              \/ ev'.op = "positionSuccess" /\ ev'.callback # Null ]_vars

\* C16 witness: two clicks were made before any position was known; the query
\* of one resolved and its route was drawn, then the query of the other failed:
\* the drawn route is still the current one and no request is in flight.
C16_SecondClickLostItsRoute ==
    /\ ev.op = "positionError"
    /\ ev.callback # Null
    /\ userLocationMarker # Null
    /\ currentRouteLayer # Null
    /\ currentRouteLayer \in mapLayers
    /\ routeReqs = {}
    /\ issued.route = 1

(***************************************************************************)
(* Failed searches (SearchSpec).                                           *)
(***************************************************************************)
\* C17: submitting a search changes nothing of the display, and when the
\* request of a search fails (the fetch is rejected or the body is not JSON)
\* the display stays as it was: the tracked markers, the markers on the map,
\* the sidebar and the result count; no geocoding request is issued for that
\* search, with or without a location.
C17_FailedSearchKeepsDisplay ==
    [][ (\/ ev'.op = "searchProperties"
         \/ /\ ev'.op = "searchPropertiesResponse"
            /\ ev'.kind \in {"reject", "unparseable"})
        => /\ propertyMarkers' = propertyMarkers
           /\ mapLayers' = mapLayers
           /\ propertyList' = propertyList
           /\ resultCount' = resultCount
           /\ geocodeReqs' = geocodeReqs
           /\ issued'.geocode = issued.geocode ]_vars

\* C17 witness: a search with a location failed while two listings were
\* displayed; they still are, and no geocoding request was ever issued.
C17_FailedSearchWithLocation ==
    /\ ev.op = "searchPropertiesResponse"
    /\ ev.kind \in {"reject", "unparseable"}
    /\ ev.location # ""
    /\ Len(propertyMarkers) = 2
    /\ PropertyLayers(mapLayers) = { propertyMarkers[1], propertyMarkers[2] }
    /\ Len(propertyList) = 2
    /\ resultCount = "2"
    /\ issued.geocode = 0
    /\ geocodeReqs = {}

(***************************************************************************)
(* The reference to the current route (DirectionsSpec).                    *)
(***************************************************************************)
\* C18: whenever no route request is in flight, currentRouteLayer is non-null
\* exactly when the layer it refers to is displayed on the map.
C18_RouteReferenceIsDisplayed ==
    routeReqs = {}
    => (currentRouteLayer # Null <=> currentRouteLayer \in RouteLayers(mapLayers))

(***************************************************************************)
(* Markers of location searches (SearchSpec).                              *)
(***************************************************************************)
\* C19: the markers of location searches only accumulate.  A successful
\* geocoding response adds exactly one new marker to the map, keeps the earlier
\* ones, and does not track the new one in propertyMarkers; no other step
\* (a render pass with its clearPropertyMarkers, a search, a failed geocoding
\* response) adds or removes one.  Hence the number of these markers is the
\* number of successful geocoding responses handled so far.
C19_LocationMarkersAccumulate ==
    [][ LET before == LocationLayers(mapLayers)
            after  == LocationLayers(mapLayers')
        IN  IF ev'.op = "geocodeResponse" /\ ev'.kind = "json" /\ ev'.success
            THEN /\ before \subseteq after
                 /\ Cardinality(after) = Cardinality(before) + 1
                 /\ \A l \in after \ before :
                       /\ l.id = ev'.id
                       /\ \A i \in 1..Len(propertyMarkers') : propertyMarkers'[i] # l
                 /\ propertyMarkers' = propertyMarkers
            ELSE after = before ]_vars

\* C19 witness: two location searches succeeded and a result set was rendered
\* after them: both location markers are still on the map, next to the
\* markers of the new set.
C19_LocationMarkersSurviveRender ==
    /\ ev.op \in {"loadPropertiesResponse", "searchPropertiesResponse"}
    /\ ev.kind = "array" /\ ~ev.threw
    /\ Cardinality(LocationLayers(mapLayers)) = 2
    /\ propertyMarkers # <<>>
    /\ geocodeReqs = {}

====
